---- MODULE Spec2Model ----
(***************************************************************************)
(* A model of the metadata store of jonathan-lemos/meta:                   *)
(*   - the lock manager of SqliteDatabase (database/sqlite.rs 602-750),    *)
(*   - the storage engine UnsynchronizedSqliteDatabase (sqlite.rs 52-600), *)
(*   - the Path helper (database/path.rs).                                 *)
(* Strings are sequences of one-character strings, so that trimming,       *)
(* truncation and slicing are computed as the code computes them.          *)
(***************************************************************************)
EXTENDS Integers, Sequences, FiniteSets, TLC

VARIABLES
    pc,          \* lock manager: where each thread is in its call
    method,      \* lock manager: the method a thread is executing
    request,     \* lock manager: the &[(Lock, LockMode)] slice handed to ctx
    idx,         \* lock manager: how many items of request the for loop has done
    ret,         \* lock manager: the SqliteDatabaseLockContext being filled
    lock_mtx,    \* lock manager: the holder of SqliteDatabase.lock_mtx
    Directories, \* storage: rows of table Directories
    Files,       \* storage: rows of table Files
    FileMetadata,      \* storage: rows of table FileMetadata
    DirectoryMetadata, \* storage: rows of table DirectoryMetadata
    last,        \* storage: the last call, its arguments, result and pre-state
    ncalls,      \* storage: number of calls made so far
    cur_path,    \* path.rs: a Path value, and the call that produced it
    lexer,       \* query/lex.rs: the slice being lexed, and the result of the call
    parser,      \* query/parse.rs: the lexeme queue, and the result of parse
    cache        \* collections/mrucache.rs: an MRUCache, and the last call on it

lockVars == <<pc, method, request, idx, ret, lock_mtx>>
dbVars == <<Directories, Files, FileMetadata, DirectoryMetadata, last, ncalls>>
pureVars == <<cur_path, lexer, parser, cache>>
vars == <<pc, method, request, idx, ret, lock_mtx,
          Directories, Files, FileMetadata, DirectoryMetadata, last, ncalls,
          cur_path, lexer, parser, cache>>

None == "None"

\* no Path has been built
NoPathCall ==
    [pat |-> << >>, op |-> "none", arg |-> << >>, before |-> << >>,
     before_op |-> "none", out |-> << >>]

\* nothing has been lexed
NoLexCall ==
    [op |-> "none", slice |-> << >>, tag |-> "none", out |-> << >>,
     rest |-> << >>, used |-> 0]

\* nothing has been parsed
NoParseCall == [op |-> "none"]

\* no MRUCache has been built
NoCache == [op |-> "none"]

\* the Path, lexer, parser and cache parts while the store or the lock manager is at work
InitPure ==
    /\ cur_path = NoPathCall
    /\ lexer = NoLexCall
    /\ parser = NoParseCall
    /\ cache = NoCache

(***************************************************************************)
(* database/path.rs                                                        *)
(***************************************************************************)

RECURSIVE trim_end_slashes(_)
\* str::trim_end_matches("/") / trim_end_matches('/')
trim_end_slashes(s) ==
    IF Len(s) > 0 /\ s[Len(s)] = "/"
    THEN trim_end_slashes(SubSeq(s, 1, Len(s) - 1))
    ELSE s

RECURSIVE trim_end_non_slashes(_)
\* str::trim_end_matches(|c| c != '/')
trim_end_non_slashes(s) ==
    IF Len(s) > 0 /\ s[Len(s)] # "/"
    THEN trim_end_non_slashes(SubSeq(s, 1, Len(s) - 1))
    ELSE s

RECURSIVE trim_start_double_slashes(_)
\* str::trim_start_matches("//"): removes whole "//" pairs only
trim_start_double_slashes(s) ==
    IF Len(s) >= 2 /\ s[1] = "/" /\ s[2] = "/"
    THEN trim_start_double_slashes(SubSeq(s, 3, Len(s)))
    ELSE s

\* Path::new: the normalized string kept in Path.pat
Path_new(s) ==
    LET s1 == trim_end_slashes(s)
        s2 == trim_start_double_slashes(s1)
    IN  IF Len(s2) > 0 /\ s2[1] = "/" THEN s2 ELSE <<"/">> \o s2

\* the length both filename() and pop() cut the string at
Path_cut(pat) == Len(trim_end_slashes(trim_end_non_slashes(pat)))

\* Path::filename: &pat[cut..]
Path_filename(pat) == SubSeq(pat, Path_cut(pat) + 1, Len(pat))

\* Path::parent_str
Path_parent_str(s) ==
    LET r == trim_end_slashes(trim_end_non_slashes(s))
    IN  IF Len(r) > 0 THEN r ELSE <<"/">>

\* Path::parent
Path_parent(pat) == Path_parent_str(pat)

\* Path::pop: the string left in pat by truncate(cut)
Path_pop(pat) == SubSeq(pat, 1, Path_cut(pat))

\* Path::pop, lines 50 and 52: the String pop returns
Path_pop_returns(pat) == Path_filename(pat)

\* Add<&str> for Path, lines 59-65, and AddAssign, lines 71-72
Path_add(pat, rhs) == trim_end_slashes(pat \o rhs)

\* Div<&str> for Path, lines 79-85, and DivAssign, lines 91-93
Path_div(pat, rhs) == trim_end_slashes(pat \o <<"/">> \o rhs)

(***************************************************************************)
(* Lock manager: SqliteDatabase::ctx and the methods that call it          *)
(***************************************************************************)

Threads == {"t1", "t2", "t3"}

\* enum Lock
Lock == {"File", "FileMeta", "Dir", "DirMeta"}

\* enum LockMode
LockMode == {"Read", "Write"}

\* SqliteDatabaseLockContext { file: Empty, file_meta: Empty, dir: Empty, dir_meta: Empty }
EmptyContext == [l \in Lock |-> "Empty"]

\* The request each method of impl Database for SqliteDatabase passes to ctx;
\* <<>> with UsesCtx false for the methods whose body never calls ctx.
MethodRequest ==
    [ file_directory         |-> << <<"File", "Read">>, <<"Dir", "Read">> >>,
      file_metadata_get      |-> << <<"FileMeta", "Read">>, <<"File", "Read">> >>,
      file_metadata_set      |-> << <<"FileMeta", "Write">>, <<"File", "Read">> >>,
      directory_files_with_key |->
          << <<"Dir", "Read">>, <<"File", "Read">>, <<"FileMeta", "Read">> >>,
      directory_metadata_set |-> << >>,
      add_file               |-> << >> ]

Methods == DOMAIN MethodRequest

\* the methods whose first statement is `let _ = self.ctx(&[...]);`
UsesCtx == {"file_directory", "file_metadata_get", "file_metadata_set",
            "directory_files_with_key"}

\* The tables the body of each method touches in the persistence provider,
\* with the access it makes to them.
MethodAccess ==
    [ file_directory         |-> {<<"File", "Read">>, <<"Dir", "Read">>},
      file_metadata_get      |-> {<<"FileMeta", "Read">>},
      file_metadata_set      |-> {<<"FileMeta", "Write">>},
      directory_files_with_key |->
          {<<"Dir", "Read">>, <<"File", "Read">>, <<"FileMeta", "Read">>},
      directory_metadata_set |-> {<<"DirMeta", "Write">>},
      add_file               |-> {<<"File", "Write">>, <<"Dir", "Read">>} ]

\* Requests a direct caller of the public ctx may pass: each resource at
\* most once, in either order.
CtxRequests ==
    { << <<"File", "Write">>, <<"Dir", "Write">> >>,
      << <<"Dir", "Write">>, <<"File", "Write">> >>,
      << <<"File", "Write">>, <<"Dir", "Read">> >>,
      << <<"DirMeta", "Write">> >> }

\* RwLock state, read off the guards that are alive
Readers(l) == {t \in Threads : ret[t][l] = "Read"}
Writers(l) == {t \in Threads : ret[t][l] = "Write"}

\* RwLock::read / RwLock::write return without blocking
CanAcquire(t, l, m) ==
    IF m = "Read"
    THEN Writers(l) = {}
    ELSE Writers(l) = {} /\ Readers(l) = {}

InitLock ==
    /\ pc = [t \in Threads |-> "idle"]
    /\ method = [t \in Threads |-> None]
    /\ request = [t \in Threads |-> << >>]
    /\ idx = [t \in Threads |-> 0]
    /\ ret = [t \in Threads |-> EmptyContext]
    /\ lock_mtx = None

\* a thread calls a method of impl Database for SqliteDatabase
call_method(t, m) ==
    /\ pc[t] = "idle"
    /\ method' = [method EXCEPT ![t] = m]
    /\ request' = [request EXCEPT ![t] = MethodRequest[m]]
    /\ idx' = [idx EXCEPT ![t] = 0]
    /\ pc' = [pc EXCEPT ![t] = IF m \in UsesCtx THEN "ctx_lock_mtx" ELSE "usd"]
    /\ UNCHANGED <<ret, lock_mtx, dbVars, pureVars>>

\* a thread calls the public ctx directly and keeps the context it returns
call_ctx(t, req) ==
    /\ pc[t] = "idle"
    /\ method' = [method EXCEPT ![t] = "ctx"]
    /\ request' = [request EXCEPT ![t] = req]
    /\ idx' = [idx EXCEPT ![t] = 0]
    /\ pc' = [pc EXCEPT ![t] = "ctx_lock_mtx"]
    /\ UNCHANGED <<ret, lock_mtx, dbVars, pureVars>>

\* ctx, line 659: self.lock_mtx.lock() returns the MutexGuard ...
ctx_lock_mtx(t) ==
    /\ pc[t] = "ctx_lock_mtx"
    /\ lock_mtx = None
    /\ lock_mtx' = t
    /\ pc' = [pc EXCEPT ![t] = "ctx_drop_mtx"]
    /\ UNCHANGED <<method, request, idx, ret, dbVars, pureVars>>

\* ... and `let _ =` binds nothing, so the guard is dropped at the end of
\* the statement, before the for loop starts.
ctx_drop_mtx(t) ==
    /\ pc[t] = "ctx_drop_mtx"
    /\ lock_mtx' = None
    /\ pc' = [pc EXCEPT ![t] = "ctx_for"]
    /\ UNCHANGED <<method, request, idx, ret, dbVars, pureVars>>

\* ctx, lines 661-673: one iteration of the for loop
ctx_for(t) ==
    /\ pc[t] = "ctx_for"
    /\ idx[t] < Len(request[t])
    /\ LET l == request[t][idx[t] + 1][1]
           m == request[t][idx[t] + 1][2]
       IN  /\ CanAcquire(t, l, m)
           /\ ret' = [ret EXCEPT ![t][l] = m]
    /\ idx' = [idx EXCEPT ![t] = idx[t] + 1]
    /\ UNCHANGED <<pc, method, request, lock_mtx, dbVars, pureVars>>

\* ctx, line 675: the loop is over and ret is returned to the caller
ctx_return(t) ==
    /\ pc[t] = "ctx_for"
    /\ idx[t] = Len(request[t])
    /\ pc' = [pc EXCEPT ![t] = "ctx_returned"]
    /\ UNCHANGED <<method, request, idx, ret, lock_mtx, dbVars, pureVars>>

\* lines 684, 693, 702, 711, ...: `let _ = self.ctx(..);` binds nothing, so
\* the returned context and every guard in it are dropped at the end of the
\* statement; the next statement is the call into self.usd.
method_drop_ctx(t) ==
    /\ pc[t] = "ctx_returned"
    /\ method[t] \in UsesCtx
    /\ ret' = [ret EXCEPT ![t] = EmptyContext]
    /\ pc' = [pc EXCEPT ![t] = "usd"]
    /\ UNCHANGED <<method, request, idx, lock_mtx, dbVars, pureVars>>

\* the call into the persistence provider returns, and so does the method
usd_return(t) ==
    /\ pc[t] = "usd"
    /\ pc' = [pc EXCEPT ![t] = "idle"]
    /\ method' = [method EXCEPT ![t] = None]
    /\ request' = [request EXCEPT ![t] = << >>]
    /\ idx' = [idx EXCEPT ![t] = 0]
    /\ UNCHANGED <<ret, lock_mtx, dbVars, pureVars>>

\* a direct caller of ctx lets the context go out of scope
caller_drop_ctx(t) ==
    /\ pc[t] = "ctx_returned"
    /\ method[t] = "ctx"
    /\ ret' = [ret EXCEPT ![t] = EmptyContext]
    /\ pc' = [pc EXCEPT ![t] = "idle"]
    /\ method' = [method EXCEPT ![t] = None]
    /\ request' = [request EXCEPT ![t] = << >>]
    /\ idx' = [idx EXCEPT ![t] = 0]
    /\ UNCHANGED <<lock_mtx, dbVars, pureVars>>

(***************************************************************************)
(* Storage engine: UnsynchronizedSqliteDatabase                            *)
(***************************************************************************)

\* the paths the callers pass: "/", "/a", "/a/", "a/b", "/a/b", "/b", "/a/b/c"
PathInputs ==
    { <<"/">>,
      <<"/", "a">>,
      <<"/", "a", "/">>,
      <<"a", "/", "b">>,
      <<"/", "a", "/", "b">>,
      <<"/", "b">>,
      <<"/", "a", "/", "b", "/", "c">> }

\* the batches passed to add_directories
DirectoryBatches ==
    { << <<"/", "a", "/", "b">>, <<"/", "b">> >>,
      << <<"/", "a">>, <<"/", "a", "/">> >>,
      << <<"/">>, <<"/", "a", "/", "b", "/", "c">> >> }

\* the batches passed to add_files
FileBatches ==
    { << <<<<"/", "a">>, "h1">>, <<<<"/", "a", "/", "b">>, "h2">> >>,
      << <<<<"/", "b">>, "h1">>, <<<<"/", "a">>, "h1">> >>,
      << <<<<"/", "a", "/", "b">>, "h1">>, <<<<"/">>, "h1">> >> }

Hashes == {"h1", "h2"}

MaxCalls == 4

NoRow == [id |-> 0]

Max(S) == CHOOSE x \in S : \A y \in S : y <= x

Min(S) == CHOOSE x \in S : \A y \in S : x <= y

\* the rowid SQLite gives the next inserted row
NextId(T) == IF T = {} THEN 1 ELSE 1 + Max({r.id : r \in T})

\* .first(): the matching row with the lowest rowid
first(S) == CHOOSE r \in S : \A q \in S : r.id <= q.id

\* The store as initialized by the migrations: the tables exist and the
\* root directory "/" is there.
InitialDirectories == {[id |-> 1, path |-> <<"/">>]}

\* Directories.path is unique: a plain insert_into of an existing path is a
\* constraint violation.
DirectoriesUniqueViolation(D, path) == \E r \in D : r.path = path

\* (directory_id, filename) is unique in Files
FilesUniqueViolation(F, directory_id, filename) ==
    \E f \in F : f.directory_id = directory_id /\ f.filename = filename

\* the row added by insert_into(Directories).values(NewDirectory { path })
InsertDirectory(D, path) == D \cup {[id |-> NextId(D), path |-> path]}

\* preprocess: the normalization of a raw path
preprocess(p) == Path_new(p)

\* Option<&str>::None for a path result
NoPath == <<"None">>

\* parent_dir: the parent of a path, None for a path that has none
parent_dir(p) ==
    LET r == trim_end_slashes(trim_end_non_slashes(p))
    IN  IF trim_end_slashes(p) = << >> THEN NoPath
        ELSE IF r = << >> THEN <<"/">>
        ELSE r

\* super::path::filename: the final path segment
path_filename(p) == SubSeq(p, Len(trim_end_non_slashes(p)) + 1, Len(p))

\* get_entry, lines 403-427
get_entry(D, F, p) ==
    LET pat == Path_new(p)
        d == {r \in D : r.path = pat}
        par == Path_parent(pat)
        fnam == Path_filename(pat)
        fs == {f \in F : /\ f.filename = fnam
                         /\ \E r \in D : r.id = f.directory_id /\ r.path = par}
    IN  IF d # {} THEN [kind |-> "Directory", row |-> first(d)]
        ELSE IF fs # {} THEN [kind |-> "File", row |-> first(fs)]
        ELSE [kind |-> "None", row |-> NoRow]

\* get_directory, lines 808-816
get_directory(D, p) ==
    LET p1 == preprocess(p)
        d == {r \in D : r.path = p1 \/ r.path = trim_end_slashes(p1)}
    IN  IF d # {} THEN first(d) ELSE NoRow

\* get_entries, lines 435-447: filename_parent_map, as the set of its
\* (filename, parent) pairs
filename_parent_map(paths) ==
    {<<Path_filename(Path_new(paths[i])), Path_parent(Path_new(paths[i]))>> :
        i \in 1..Len(paths)}

\* get_entries, lines 429-467; the result is collected into B, here a set
get_entries(D, F, paths) ==
    LET pstrs == {paths[i] : i \in 1..Len(paths)}
        parents == {Path_parent(Path_new(x)) : x \in pstrs}
        filenames == {Path_filename(Path_new(x)) : x \in pstrs}
        dirs == {r \in D : r.path \in pstrs}
        files == {f \in F :
                    \E r \in D : /\ r.id = f.directory_id
                                 /\ r.path \in parents
                                 /\ f.filename \in filenames
                                 /\ <<f.filename, r.path>> \in filename_parent_map(paths)}
    IN  {[kind |-> "Directory", row |-> r] : r \in dirs}
            \cup {[kind |-> "File", row |-> f] : f \in files}

\* path.like(d.path + "%"): the strings that begin with d.path
like_prefix(prefix, str) ==
    /\ Len(str) >= Len(prefix)
    /\ SubSeq(str, 1, Len(prefix)) = prefix

\* directory_entries, lines 316-335; the result is collected into B, here a set
directory_entries(D, F, d) ==
    LET dirs == {r \in D : like_prefix(d.path, r.path)}
        ids == {r.id : r \in dirs}
        files == {f \in F : f.directory_id \in ids}
    IN  {[kind |-> "Directory", row |-> r] : r \in dirs}
            \cup {[kind |-> "File", row |-> f] : f \in files}

\* add_directory_ancestors with the loop left out: only P itself is inserted
add_directory_ancestors_none(D, p) == [dirs |-> D, err |-> FALSE]

RECURSIVE add_directory_ancestors(_, _)
\* add_directory, lines 495-507: the while loop over the popped path. A
\* plain insert_into of a path that is already there is a constraint
\* violation, which `?` returns as DbError; execute() never returns 0.
add_directory_ancestors(D, p) ==
    IF Len(p) > 1
    THEN IF DirectoriesUniqueViolation(D, p)
         THEN [dirs |-> D, err |-> TRUE]
         ELSE add_directory_ancestors(InsertDirectory(D, p), Path_pop(p))
    ELSE [dirs |-> D, err |-> FALSE]

\* add_directory, lines 469-510
add_directory(D, F, p) ==
    LET e == get_entry(D, F, p)
        pat == Path_new(p)
        D1 == InsertDirectory(D, pat)
        dir == first({r \in D1 : r.path = pat})
        anc == add_directory_ancestors(D1, Path_pop(pat))
    IN  IF e.kind = "File"
        THEN [dirs |-> D, tag |-> "ApplicationError", row |-> NoRow, created |-> FALSE]
        ELSE IF e.kind = "Directory"
        THEN [dirs |-> D, tag |-> "Ok", row |-> e.row, created |-> FALSE]
        ELSE IF DirectoriesUniqueViolation(D, pat)
        THEN [dirs |-> D, tag |-> "DbError", row |-> NoRow, created |-> FALSE]
        ELSE IF anc.err
        THEN [dirs |-> anc.dirs, tag |-> "DbError", row |-> NoRow, created |-> FALSE]
        ELSE [dirs |-> anc.dirs, tag |-> "Ok", row |-> dir, created |-> TRUE]

RECURSIVE parent_chain(_)
\* add_directories, lines 521-524: s and its parents while s.len() > 1
parent_chain(s) ==
    IF Len(s) > 1 THEN <<s>> \o parent_chain(Path_parent_str(s)) ELSE << >>

RECURSIVE pat_refs(_)
\* add_directories, lines 515-525
pat_refs(paths) ==
    IF paths = << >> THEN << >>
    ELSE parent_chain(Path_new(Head(paths))) \o pat_refs(Tail(paths))

RECURSIVE insert_or_ignore_directories(_, _)
\* insert_or_ignore_into(Directories).values(new_dirs): rows whose path is
\* already there are skipped; count is the number of rows inserted
insert_or_ignore_directories(D, paths) ==
    IF paths = << >> THEN [dirs |-> D, count |-> 0]
    ELSE LET skip == DirectoriesUniqueViolation(D, Head(paths))
             r == insert_or_ignore_directories(
                      IF skip THEN D ELSE InsertDirectory(D, Head(paths)),
                      Tail(paths))
         IN  [dirs |-> r.dirs, count |-> r.count + (IF skip THEN 0 ELSE 1)]

\* add_directories, lines 512-536
add_directories(D, paths) ==
    LET r == insert_or_ignore_directories(D, pat_refs(paths))
    IN  [dirs |-> r.dirs, tag |-> "Ok", count |-> r.count]

\* insert_or_ignore_into(Files).values(NewFile {..}) for one row
insert_or_ignore_file(F, directory_id, filename, h) ==
    IF FilesUniqueViolation(F, directory_id, filename) THEN F
    ELSE F \cup {[id |-> NextId(F), directory_id |-> directory_id,
                  filename |-> filename, hash |-> h]}

\* add_file, lines 538-562
add_file(D, F, p, h) ==
    LET p1 == preprocess(p)
        parent == parent_dir(p1)
        ad == add_directory(D, F, parent)
        fname == path_filename(p1)
        res == IF FilesUniqueViolation(F, ad.row.id, fname) THEN 0 ELSE 1
        F1 == insert_or_ignore_file(F, ad.row.id, fname, h)
        found == {f \in F1 : f.filename = p1}
    IN  IF parent = NoPath
        THEN [dirs |-> D, files |-> F, tag |-> "ApplicationError",
              row |-> NoRow, created |-> FALSE]
        ELSE IF ad.tag # "Ok"
        THEN [dirs |-> ad.dirs, files |-> F, tag |-> ad.tag,
              row |-> NoRow, created |-> FALSE]
        ELSE IF found = {}
        THEN [dirs |-> ad.dirs, files |-> F1, tag |-> "DbError",
              row |-> NoRow, created |-> FALSE]
        ELSE [dirs |-> ad.dirs, files |-> F1, tag |-> "Ok",
              row |-> first(found), created |-> res > 0]

\* add_files, lines 568: (parent_dir(&e.0), preprocess(e.0), e.1)
add_files_it(batch) ==
    [i \in 1..Len(batch) |->
        [parent |-> parent_dir(batch[i][1]),
         path |-> preprocess(batch[i][1]),
         hash |-> batch[i][2]]]

RECURSIVE insert_or_ignore_files(_, _, _)
\* add_files, lines 586-594: the rows of one group, in order
insert_or_ignore_files(F, directory_id, tuples) ==
    IF tuples = << >> THEN F
    ELSE insert_or_ignore_files(
             insert_or_ignore_file(F, directory_id,
                                   path_filename(Head(tuples).path),
                                   Head(tuples).hash),
             directory_id, Tail(tuples))

RECURSIVE add_files_groups(_, _, _, _)
\* add_files, lines 580-597: the loop over the groups, in the order the
\* HashMap yields them, and the final return, which is an Err on every path
add_files_groups(D, F, it, order) ==
    IF order = << >>
    THEN [dirs |-> D, files |-> F, tag |-> "ApplicationError"]
    ELSE LET parent == Head(order)
             gd == get_directory(D, parent)
             ad == add_directory(D, F, parent)
             tuples == SelectSeq(it, LAMBDA t : t.parent = parent)
         IN  IF gd.id # 0
             THEN add_files_groups(D, insert_or_ignore_files(F, gd.id, tuples),
                                   it, Tail(order))
             ELSE IF ad.tag # "Ok"
             THEN [dirs |-> ad.dirs, files |-> F, tag |-> ad.tag]
             ELSE add_files_groups(ad.dirs,
                                   insert_or_ignore_files(F, ad.row.id, tuples),
                                   it, Tail(order))

\* add_files, lines 564-598
add_files(D, F, batch, order) ==
    LET it == add_files_it(batch)
    IN  IF \E i \in 1..Len(it) : it[i].parent = NoPath
        THEN [dirs |-> D, files |-> F, tag |-> "ApplicationError"]
        ELSE add_files_groups(D, F, it, order)

\* the orders in which a HashMap may yield the keys S
Orders(S) ==
    {o \in [1..Cardinality(S) -> S] : \A i, j \in 1..Cardinality(S) : o[i] = o[j] => i = j}

\* the keys of it.iter().group_by(|e| e.0.unwrap())
GroupKeys(batch) ==
    {parent_dir(batch[i][1]) : i \in 1..Len(batch)} \ {NoPath}

NoCall ==
    [op |-> "none", p |-> << >>, tag |-> "none", created |-> FALSE,
     row |-> NoRow, count |-> 0, out |-> {},
     pre |-> [dirs |-> {}, files |-> {}]]

\* nothing is stored and no call has been made
InitStore ==
    /\ Directories = InitialDirectories
    /\ Files = {}
    /\ FileMetadata = {}
    /\ DirectoryMetadata = {}
    /\ last = NoCall
    /\ ncalls = 0

Pre == [dirs |-> Directories, files |-> Files]

AddDirectory(p) ==
    /\ ncalls < MaxCalls
    /\ LET r == add_directory(Directories, Files, p)
       IN  /\ Directories' = r.dirs
           /\ last' = [op |-> "add_directory", p |-> p, tag |-> r.tag,
                       created |-> r.created, row |-> r.row, count |-> 0,
                       out |-> {}, pre |-> Pre]
    /\ ncalls' = ncalls + 1
    /\ UNCHANGED <<Files, FileMetadata, DirectoryMetadata, lockVars, pureVars>>

AddDirectories(paths) ==
    /\ ncalls < MaxCalls
    /\ LET r == add_directories(Directories, paths)
       IN  /\ Directories' = r.dirs
           /\ last' = [op |-> "add_directories", p |-> paths, tag |-> r.tag,
                       created |-> FALSE, row |-> NoRow, count |-> r.count,
                       out |-> {}, pre |-> Pre]
    /\ ncalls' = ncalls + 1
    /\ UNCHANGED <<Files, FileMetadata, DirectoryMetadata, lockVars, pureVars>>

AddFile(p, h) ==
    /\ ncalls < MaxCalls
    /\ LET r == add_file(Directories, Files, p, h)
       IN  /\ Directories' = r.dirs
           /\ Files' = r.files
           /\ last' = [op |-> "add_file", p |-> p, tag |-> r.tag,
                       created |-> r.created, row |-> r.row, count |-> 0,
                       out |-> {}, pre |-> Pre]
    /\ ncalls' = ncalls + 1
    /\ UNCHANGED <<FileMetadata, DirectoryMetadata, lockVars, pureVars>>

AddFiles(batch) ==
    /\ ncalls < MaxCalls
    /\ \E order \in Orders(GroupKeys(batch)) :
         LET r == add_files(Directories, Files, batch, order)
         IN  /\ Directories' = r.dirs
             /\ Files' = r.files
             /\ last' = [op |-> "add_files", p |-> batch, tag |-> r.tag,
                         created |-> FALSE, row |-> NoRow, count |-> 0,
                         out |-> {}, pre |-> Pre]
    /\ ncalls' = ncalls + 1
    /\ UNCHANGED <<FileMetadata, DirectoryMetadata, lockVars, pureVars>>

Init == InitLock /\ InitStore /\ InitPure

Next ==
    \/ \E p \in PathInputs : AddDirectory(p)
    \/ \E paths \in DirectoryBatches : AddDirectories(paths)
    \/ \E p \in PathInputs, h \in Hashes : AddFile(p, h)
    \/ \E batch \in FileBatches : AddFiles(batch)

Spec == Init /\ [][Next]_vars

\* the paths of the lookups: "/a", "/a/", "/ab", "/a/b", "/ab/c"
LookupPaths ==
    { <<"/", "a">>,
      <<"/", "a", "/">>,
      <<"/", "a", "b">>,
      <<"/", "a", "/", "b">>,
      <<"/", "a", "b", "/", "c">> }

\* the batches passed to get_entries
LookupBatches ==
    { << <<"/", "a", "/">> >>,
      << <<"/", "a">>, <<"/", "a", "b">> >>,
      << <<"/", "a", "/", "b">>, <<"/", "a", "b", "/", "c">> >>,
      << <<"/">>, <<"/", "a", "b", "/", "c">> >> }

GetEntries(paths) ==
    /\ last' = [op |-> "get_entries", p |-> paths, tag |-> "Ok",
                created |-> FALSE, row |-> NoRow, count |-> 0,
                out |-> get_entries(Directories, Files, paths), pre |-> Pre]
    /\ UNCHANGED <<Directories, Files, FileMetadata, DirectoryMetadata,
                   ncalls, lockVars, pureVars>>

DirectoryEntries(d) ==
    /\ last' = [op |-> "directory_entries", p |-> d.path, tag |-> "Ok",
                created |-> FALSE, row |-> d, count |-> 0,
                out |-> directory_entries(Directories, Files, d), pre |-> Pre]
    /\ UNCHANGED <<Directories, Files, FileMetadata, DirectoryMetadata,
                   ncalls, lockVars, pureVars>>

\* a store being filled and looked up
NextLookup ==
    \/ \E p \in LookupPaths : AddDirectory(p)
    \/ \E p \in LookupPaths, h \in Hashes : AddFile(p, h)
    \/ \E paths \in LookupBatches : GetEntries(paths)
    \/ \E d \in Directories : DirectoryEntries(d)

SpecLookup == Init /\ [][NextLookup]_vars

(***************************************************************************)
(* Claims about the storage engine, checked under Spec                     *)
(***************************************************************************)

\* the path a File row denotes: its directory's path joined with its filename
FilePath(D, f) ==
    LET d == CHOOSE r \in D : r.id = f.directory_id
    IN  IF d.path = <<"/">> THEN <<"/">> \o f.filename
        ELSE d.path \o <<"/">> \o f.filename

IsDirectory(D, path) == \E r \in D : r.path = path

IsFile(D, F, path) == \E f \in F : FilePath(D, f) = path

\* the proper ancestors of a normalized path, the root included
Ancestors(path) ==
    {SubSeq(path, 1, i - 1) : i \in {j \in 2..Len(path) : path[j] = "/"}}
        \cup {<<"/">>}

\* the normalized path the last call was given
LastPath == Path_new(last.p)

\* C5: add_directory is idempotent: for a path P that is not a File,
\* add_directory(P) on a store where P is absent returns created=true, and
\* on a store where P is a Directory it returns created=false with that
\* Directory and leaves the directories and files unchanged.
C5_AddDirectoryIdempotent ==
    (last.op = "add_directory" /\ ~IsFile(last.pre.dirs, last.pre.files, LastPath))
        => IF ~IsDirectory(last.pre.dirs, LastPath)
           THEN last.tag = "Ok" /\ last.created
           ELSE /\ last.tag = "Ok"
                /\ ~last.created
                /\ last.row \in last.pre.dirs
                /\ last.row.path = LastPath
                /\ Directories = last.pre.dirs
                /\ Files = last.pre.files

C7_AddDirectoryAtomic ==
    (last.op = "add_directory" /\ last.tag # "Ok")
        => Directories = last.pre.dirs

\* the paths of a set of Directory rows
DirectoryPaths(D) == {r.path : r \in D}

\* C27: add_directory(P) succeeds with created=true whenever P is absent and
\* is not a File, also when some proper ancestor of P already exists as a
\* Directory: the rows that were there are kept, only P and its missing
\* ancestors are added, and an existing ancestor is never reported as an
\* error.
C27_ExistingAncestorIsNoError ==
    (/\ last.op = "add_directory"
     /\ ~IsFile(last.pre.dirs, last.pre.files, LastPath)
     /\ ~IsDirectory(last.pre.dirs, LastPath)
     /\ \E a \in Ancestors(LastPath) \ {<<"/">>} : IsDirectory(last.pre.dirs, a))
        => /\ last.tag = "Ok"
           /\ last.created
           /\ last.pre.dirs \subseteq Directories
           /\ DirectoryPaths(Directories) =
                  DirectoryPaths(last.pre.dirs) \cup {LastPath}
                      \cup Ancestors(LastPath)

\* C8: no path denotes both a File and a Directory.
C8_NoPathIsFileAndDirectory ==
    \A f \in Files : ~IsDirectory(Directories, FilePath(Directories, f))

\* C9: for a path P that has a parent and is not an existing Directory,
\* add_file(P, h) returns Ok((f, created)) where f is the File row at P,
\* created is true exactly when P was no File before, and a following
\* get_entry(P) returns that File.
C9_AddFileReturnsFile ==
    (/\ last.op = "add_file"
     /\ LastPath # <<"/">>
     /\ ~IsDirectory(last.pre.dirs, LastPath))
        => /\ last.tag = "Ok"
           /\ last.row \in Files
           /\ FilePath(Directories, last.row) = LastPath
           /\ last.created = ~IsFile(last.pre.dirs, last.pre.files, LastPath)
           /\ get_entry(Directories, Files, last.p) =
                  [kind |-> "File", row |-> last.row]

\* the entries get_entry finds for the paths of a batch, one path at a time
EntriesOneByOne(D, F, paths) ==
    {get_entry(D, F, paths[i]) : i \in 1..Len(paths)}
        \ {[kind |-> "None", row |-> NoRow]}

\* C12: get_entries(paths) returns exactly the entries get_entry returns for
\* the single paths: e is in the result iff get_entry(p) = Some(e) for some p
\* of paths; a path with a trailing slash finds the directory get_entry finds.
C12_GetEntriesAsGetEntry ==
    last.op = "get_entries"
        => last.out = EntriesOneByOne(Directories, Files, last.p)

\* path b lies below path a in the hierarchy
Below(a, b) ==
    /\ b # a
    /\ IF a = <<"/">> THEN like_prefix(a, b) ELSE like_prefix(a \o <<"/">>, b)

\* the entries below directory d, d itself left aside
Descendants(D, F, d) ==
    {[kind |-> "Directory", row |-> r] : r \in {x \in D : Below(d.path, x.path)}}
        \cup {[kind |-> "File", row |-> f] :
                    f \in {x \in F : Below(d.path, FilePath(D, x))}}

\* C13: directory_entries(d) returns exactly the entries whose path is below
\* d.path in the hierarchy (d itself may or may not be listed): a directory
\* whose path only has d.path as a string prefix, like "/ab" for "/a", and the
\* files of such a directory are never returned.
C13_DirectoryEntriesAreDescendants ==
    last.op = "directory_entries"
        => last.out \ {[kind |-> "Directory", row |-> last.row]}
               = Descendants(Directories, Files, last.row)

\* C14: add_files on a batch in which every path has a parent and none is a
\* Directory returns Ok(n), n being the number of File rows that were not
\* there before the call and are there after it, and every path of the batch
\* is a File afterwards.
C14_AddFilesCountsNewFiles ==
    (/\ last.op = "add_files"
     /\ \A i \in 1..Len(last.p) :
            /\ parent_dir(last.p[i][1]) # NoPath
            /\ ~IsDirectory(last.pre.dirs, Path_new(last.p[i][1])))
        => /\ last.tag = "Ok"
           /\ last.count = Cardinality(Files \ last.pre.files)
           /\ \A i \in 1..Len(last.p) :
                  IsFile(Directories, Files, Path_new(last.p[i][1]))

(***************************************************************************)
(* Metadata: entry_metadata_get / entry_metadata_set                       *)
(* A metadata row is [owner_id, key, value]: owner_id is file_id in        *)
(* FileMetadata and directory_id in DirectoryMetadata. The id column is    *)
(* left out: no statement of the code reads it.                            *)
(***************************************************************************)

Keys == {"k1", "k2"}

Values == {"v1", "v2"}

\* a store holding the directories "/" and "/a" and the files "/b" and "/a/b"
MetaDirectories ==
    {[id |-> 1, path |-> <<"/">>], [id |-> 2, path |-> <<"/", "a">>]}

MetaFiles ==
    {[id |-> 1, directory_id |-> 1, filename |-> <<"b">>, hash |-> "h1"],
     [id |-> 2, directory_id |-> 2, filename |-> <<"b">>, hash |-> "h1"]}

\* the Entry values a caller holds: Entry::File(f) / Entry::Directory(d)
Entries ==
    {[kind |-> "File", id |-> f.id] : f \in MetaFiles}
        \cup {[kind |-> "Directory", id |-> 1]}

\* the table an entry's pairs live in
MetadataTable(FM, DM, entry) == IF entry.kind = "File" THEN FM ELSE DM

\* XKeyValuePair::belonging_to(x).filter(key.eq(k))
belonging_to_with_key(T, entry, k) ==
    {r \in T : r.owner_id = entry.id /\ r.key = k}

\* entry_metadata_get, lines 106-127
entry_metadata_get(FM, DM, entry, k) ==
    LET rows == belonging_to_with_key(MetadataTable(FM, DM, entry), entry, k)
    IN  IF rows = {} THEN None ELSE (CHOOSE r \in rows : TRUE).value

\* entry_metadata_set, lines 134-151: delete(belonging_to(x).filter(key.eq(k)))
metadata_delete(T, entry, k) == T \ belonging_to_with_key(T, entry, k)

\* entry_metadata_set, lines 156-179: insert_into(..).values(New..KeyValuePair)
metadata_insert(T, entry, k, val) ==
    T \cup {[owner_id |-> entry.id, key |-> k, value |-> val]}

\* metadata_update with the update left out: the pair keeps its old value
metadata_update_skipped(T, entry, k, val) == T

\* entry_metadata_set, lines 182-199: update(table).filter(key.eq(k)).set(value.eq(val));
\* the filter names the key only, so every row of the table with that key is set
metadata_update(T, entry, k, val) ==
    {IF r.key = k THEN [r EXCEPT !.value = val] ELSE r : r \in T}

\* the row an Entry value was read from is still in its table
OwnerExists(entry) ==
    IF entry.kind = "File" THEN \E f \in Files : f.id = entry.id
    ELSE \E d \in Directories : d.id = entry.id

\* the foreign key of a metadata row to its owner: an insert for an owner
\* that is not in its table is refused by the provider
MetadataForeignKeyViolation(entry) == ~OwnerExists(entry)

\* entry_metadata_set, lines 129-206
entry_metadata_set(FM, DM, entry, k, v) ==
    LET existing == entry_metadata_get(FM, DM, entry, k)
        T == MetadataTable(FM, DM, entry)
        refused == v # None /\ existing = None /\ MetadataForeignKeyViolation(entry)
        T1 == IF v = None THEN metadata_delete(T, entry, k)
              ELSE IF existing = None
                   THEN IF refused THEN T ELSE metadata_insert(T, entry, k, v)
              ELSE metadata_update(T, entry, k, v)
    IN  [fm |-> IF entry.kind = "File" THEN T1 ELSE FM,
         dm |-> IF entry.kind = "File" THEN DM ELSE T1,
         tag |-> IF refused THEN "DbError" ELSE "Ok",
         ret |-> IF refused THEN None ELSE existing]

RECURSIVE entries_metadata_set_it(_, _, _, _, _, _, _)
\* entries_metadata_set, lines 282-288: the closure run inside the transaction;
\* ? leaves the loop at the first entry whose set fails
entries_metadata_set_it(FM, DM, entries, i, k, v, acc) ==
    IF i > Len(entries)
    THEN [fm |-> FM, dm |-> DM, tag |-> "Ok", ret |-> acc]
    ELSE LET r == entry_metadata_set(FM, DM, entries[i], k, v)
         IN  IF r.tag # "Ok"
             THEN [fm |-> r.fm, dm |-> r.dm, tag |-> r.tag, ret |-> <<>>]
             ELSE entries_metadata_set_it(r.fm, r.dm, entries, i + 1, k, v,
                                          Append(acc, <<entries[i], r.ret>>))

\* immediate_transaction with the rollback left out
immediate_transaction_no_rollback(FM, DM, r) == r

\* SqliteConnection::immediate_transaction, line 281: the closure's writes are
\* committed when it returns Ok and rolled back when it returns Err
immediate_transaction(FM, DM, r) ==
    IF r.tag = "Ok" THEN r ELSE [r EXCEPT !.fm = FM, !.dm = DM]

\* entries_metadata_set, lines 280-290
entries_metadata_set(FM, DM, entries, k, v) ==
    immediate_transaction(FM, DM,
        entries_metadata_set_it(FM, DM, entries, 1, k, v, <<>>))

\* an Entry value whose File row has been removed since it was read
StaleEntry == [kind |-> "File", id |-> 3]

\* the batches handed to entries_metadata_set
EntryBatches ==
    LET f1 == [kind |-> "File", id |-> 1]
        f2 == [kind |-> "File", id |-> 2]
        d1 == [kind |-> "Directory", id |-> 1]
    IN  {<<f1, d1>>, <<f2, f1>>, <<f1, StaleEntry>>, <<StaleEntry, f2>>}

NoMetaCall ==
    [op |-> "none", entry |-> [kind |-> "none", id |-> 0], entries |-> <<>>,
     key |-> "none", value |-> None, tag |-> "none", ret |-> None,
     pre |-> [fm |-> {}, dm |-> {}]]

InitMeta ==
    /\ InitLock
    /\ InitPure
    /\ Directories = MetaDirectories
    /\ Files = MetaFiles
    /\ FileMetadata = {}
    /\ DirectoryMetadata = {}
    /\ last = NoMetaCall
    /\ ncalls = 0

PreMeta == [fm |-> FileMetadata, dm |-> DirectoryMetadata]

EntryMetadataGet(entry, k) ==
    /\ last' = [op |-> "entry_metadata_get", entry |-> entry,
                entries |-> <<>>, key |-> k,
                value |-> None, tag |-> "Ok",
                ret |-> entry_metadata_get(FileMetadata, DirectoryMetadata, entry, k),
                pre |-> PreMeta]
    /\ UNCHANGED <<Directories, Files, FileMetadata, DirectoryMetadata,
                   ncalls, lockVars, pureVars>>

EntryMetadataSet(entry, k, v) ==
    /\ LET r == entry_metadata_set(FileMetadata, DirectoryMetadata, entry, k, v)
       IN  /\ FileMetadata' = r.fm
           /\ DirectoryMetadata' = r.dm
           /\ last' = [op |-> "entry_metadata_set", entry |-> entry,
                       entries |-> <<>>, key |-> k,
                       value |-> v, tag |-> r.tag, ret |-> r.ret, pre |-> PreMeta]
    /\ UNCHANGED <<Directories, Files, ncalls, lockVars, pureVars>>

EntriesMetadataSet(entries, k, v) ==
    /\ LET r == entries_metadata_set(FileMetadata, DirectoryMetadata, entries, k, v)
       IN  /\ FileMetadata' = r.fm
           /\ DirectoryMetadata' = r.dm
           /\ last' = [op |-> "entries_metadata_set", entry |-> NoMetaCall.entry,
                       entries |-> entries, key |-> k,
                       value |-> v, tag |-> r.tag, ret |-> r.ret, pre |-> PreMeta]
    /\ UNCHANGED <<Directories, Files, ncalls, lockVars, pureVars>>

NextMeta ==
    \/ \E entry \in Entries, k \in Keys : EntryMetadataGet(entry, k)
    \/ \E entry \in Entries, k \in Keys, v \in Values \cup {None} :
           EntryMetadataSet(entry, k, v)

SpecMeta == InitMeta /\ [][NextMeta]_vars

\* the batch form alone
NextMetaBatch ==
    \E entries \in EntryBatches, k \in Keys, v \in Values \cup {None} :
        EntriesMetadataSet(entries, k, v)

SpecMetaBatch == InitMeta /\ [][NextMetaBatch]_vars

(***************************************************************************)
(* Claims about metadata, checked under SpecMeta and SpecMetaBatch         *)
(***************************************************************************)

\* C10: after entry_metadata_set(e, k, Some(v)) a following
\* entry_metadata_get(e, k) returns v, also when the pair held another value
\* before; after entry_metadata_set(e, k, None) it returns None; and every
\* entry_metadata_set returns what entry_metadata_get(e, k) would have
\* returned immediately before it.
C10_MetadataUpsert ==
    last.op = "entry_metadata_set"
        => /\ last.tag = "Ok"
           /\ entry_metadata_get(FileMetadata, DirectoryMetadata,
                                 last.entry, last.key) = last.value
           /\ last.ret = entry_metadata_get(last.pre.fm, last.pre.dm,
                                            last.entry, last.key)

\* C10 witness: a pair holding v1 was set to v2 and now reads v2
C10_Witness ==
    /\ last.op = "entry_metadata_set"
    /\ last.value = "v2"
    /\ last.ret = "v1"
    /\ entry_metadata_get(FileMetadata, DirectoryMetadata,
                          last.entry, last.key) = "v2"

\* the rows of a metadata table that are not the pair (entry, k)
OtherPairs(T, entry, k) == {r \in T : ~(r.owner_id = entry.id /\ r.key = k)}

\* an owner has at most one row per key
OneValuePerKey(T) ==
    \A r1, r2 \in T : (r1.owner_id = r2.owner_id /\ r1.key = r2.key) => r1 = r2

\* C28: entry_metadata_set(e, k, v) changes nothing but the pair (e, k): the
\* pairs of every other entry, those carrying key k included, and the other
\* keys of e are the same after the call as before, when the pair is
\* inserted, updated in place or deleted; each entry keeps at most one value
\* per key.
C28_SetChangesOnePair ==
    last.op = "entry_metadata_set"
        => /\ OtherPairs(MetadataTable(FileMetadata, DirectoryMetadata, last.entry),
                         last.entry, last.key)
                  = OtherPairs(MetadataTable(last.pre.fm, last.pre.dm, last.entry),
                               last.entry, last.key)
           /\ MetadataTable(DirectoryMetadata, FileMetadata, last.entry)
                  = MetadataTable(last.pre.dm, last.pre.fm, last.entry)
           /\ OneValuePerKey(FileMetadata)
           /\ OneValuePerKey(DirectoryMetadata)

\* C11: entries_metadata_set is all-or-nothing: when setting the key on some
\* entry of the batch fails, the call returns an error and both metadata
\* tables are exactly what they were before the call, also for the entries
\* processed before the failing one; when it succeeds, every entry of the
\* batch reads the new value (None after a set to None).
C11_BatchAllOrNothing ==
    last.op = "entries_metadata_set"
        => IF last.tag # "Ok"
           THEN /\ FileMetadata = last.pre.fm
                /\ DirectoryMetadata = last.pre.dm
           ELSE \A i \in 1..Len(last.entries) :
                    entry_metadata_get(FileMetadata, DirectoryMetadata,
                                       last.entries[i], last.key) = last.value

\* C11 witness: a batch failed on its second entry after the set of its first
\* entry had changed a table, and the tables are what they were before
C11_Witness ==
    /\ last.op = "entries_metadata_set"
    /\ last.tag = "DbError"
    /\ Len(last.entries) = 2
    /\ LET r == entry_metadata_set(last.pre.fm, last.pre.dm,
                                   last.entries[1], last.key, last.value)
       IN  /\ r.tag = "Ok"
           /\ <<r.fm, r.dm>> # <<last.pre.fm, last.pre.dm>>
           /\ entry_metadata_set(r.fm, r.dm, last.entries[2],
                                 last.key, last.value).tag = "DbError"
    /\ FileMetadata = last.pre.fm
    /\ DirectoryMetadata = last.pre.dm

NextLock ==
    \E t \in Threads :
        \/ \E m \in Methods : call_method(t, m)
        \/ \E req \in CtxRequests : call_ctx(t, req)
        \/ ctx_lock_mtx(t)
        \/ ctx_drop_mtx(t)
        \/ ctx_for(t)
        \/ ctx_return(t)
        \/ method_drop_ctx(t)
        \/ usd_return(t)
        \/ caller_drop_ctx(t)

SpecLock == Init /\ [][NextLock]_vars

(***************************************************************************)
(* Claims about the lock manager, checked under SpecLock                   *)
(***************************************************************************)

\* the (resource, mode) pairs a call declared in its request
Declared(t) == {request[t][i] : i \in 1..Len(request[t])}

\* C1: while a call that declared a resource in Write mode is executing its
\* provider operation, no other call that declared the same resource (in
\* Read or Write mode) is executing its provider operation.
C1_WriterExcludesOthers ==
    \A t1, t2 \in Threads :
        (t1 # t2 /\ pc[t1] = "usd" /\ pc[t2] = "usd")
            => ~ \E l \in Lock :
                   /\ <<l, "Write">> \in Declared(t1)
                   /\ \E m \in LockMode : <<l, m>> \in Declared(t2)

\* a guard of kind g gives the access a
Covers(g, a) == IF a = "Write" THEN g = "Write" ELSE g \in {"Read", "Write"}

\* C2: during its provider call every method holds a lock on each resource
\* whose table it reads (at least Read) or modifies (Write); add_file holds
\* File=Write and Dir=Read, directory_metadata_set holds DirMeta=Write.
C2_LocksHeldDuringProviderCall ==
    \A t \in Threads :
        (pc[t] = "usd" /\ method[t] \in Methods)
            => \A a \in MethodAccess[method[t]] : Covers(ret[t][a[1]], a[2])

\* a caller is between acquiring its first and its last resource lock
Acquiring(t) ==
    pc[t] = "ctx_for" /\ 0 < idx[t] /\ idx[t] < Len(request[t])

\* C3: in ctx the global mutex is held from before the first resource lock
\* of the request is acquired until after the last one has been acquired,
\* so at most one caller at a time is between its first and its last lock.
C3_AcquisitionSerialized ==
    /\ \A t \in Threads : pc[t] = "ctx_for" => lock_mtx = t
    /\ \A t1, t2 \in Threads : (Acquiring(t1) /\ Acquiring(t2)) => t1 = t2

\* t waits in ctx for a lock that a thread of S holds in a conflicting mode
BlockedBy(t, S) ==
    /\ pc[t] = "ctx_for"
    /\ idx[t] < Len(request[t])
    /\ LET l == request[t][idx[t] + 1][1]
           m == request[t][idx[t] + 1][2]
       IN  \E u \in S \ {t} :
               \/ ret[u][l] = "Write"
               \/ m = "Write" /\ ret[u][l] = "Read"

\* C4: no reachable state is a deadlock: there is no set of calls each of
\* which waits for a lock held by another call of the set.
C4_NoDeadlock ==
    \A S \in SUBSET Threads :
        S # {} => ~ \A t \in S : BlockedBy(t, S)

(***************************************************************************)
(* Path values: Path::new followed by pop, +, +=, / and /=                 *)
(***************************************************************************)

MaxStrLen == 3

MaxPatLen == 6

\* the strings of at most n characters over S
BoundedSeq(S, n) == UNION {[1..k -> S] : k \in 0..n}

\* the strings handed to Path::new and to the operators
StrInputs == BoundedSeq({"/", "a"}, MaxStrLen)

PathCall(op, arg, pat, out) ==
    [pat |-> pat, op |-> op, arg |-> arg, before |-> cur_path.pat,
     before_op |-> cur_path.op, out |-> out]

\* a Path has been built by Path::new
InitPath ==
    /\ InitLock
    /\ InitStore
    /\ lexer = NoLexCall
    /\ parser = NoParseCall
    /\ cache = NoCache
    /\ \E s \in StrInputs :
           cur_path = [pat |-> Path_new(s), op |-> "new", arg |-> s,
                   before |-> << >>, before_op |-> "none", out |-> << >>]

PathNew(s) ==
    /\ cur_path' = PathCall("new", s, Path_new(s), << >>)
    /\ UNCHANGED <<lexer, parser, cache, lockVars, dbVars>>

PathPop ==
    /\ cur_path' = PathCall("pop", << >>, Path_pop(cur_path.pat), Path_pop_returns(cur_path.pat))
    /\ UNCHANGED <<lexer, parser, cache, lockVars, dbVars>>

PathAdd(rhs) ==
    /\ Len(cur_path.pat) + Len(rhs) + 1 <= MaxPatLen
    /\ cur_path' = PathCall("add", rhs, Path_add(cur_path.pat, rhs), << >>)
    /\ UNCHANGED <<lexer, parser, cache, lockVars, dbVars>>

PathAddAssign(rhs) ==
    /\ Len(cur_path.pat) + Len(rhs) + 1 <= MaxPatLen
    /\ cur_path' = PathCall("add_assign", rhs, Path_add(cur_path.pat, rhs), << >>)
    /\ UNCHANGED <<lexer, parser, cache, lockVars, dbVars>>

PathDiv(rhs) ==
    /\ Len(cur_path.pat) + Len(rhs) + 1 <= MaxPatLen
    /\ cur_path' = PathCall("div", rhs, Path_div(cur_path.pat, rhs), << >>)
    /\ UNCHANGED <<lexer, parser, cache, lockVars, dbVars>>

PathDivAssign(rhs) ==
    /\ Len(cur_path.pat) + Len(rhs) + 1 <= MaxPatLen
    /\ cur_path' = PathCall("div_assign", rhs, Path_div(cur_path.pat, rhs), << >>)
    /\ UNCHANGED <<lexer, parser, cache, lockVars, dbVars>>

NextPath ==
    \/ \E s \in StrInputs : PathNew(s)
    \/ PathPop
    \/ \E rhs \in StrInputs : PathAdd(rhs)
    \/ \E rhs \in StrInputs : PathAddAssign(rhs)
    \/ \E rhs \in StrInputs : PathDiv(rhs)
    \/ \E rhs \in StrInputs : PathDivAssign(rhs)

SpecPath == InitPath /\ [][NextPath]_vars

(***************************************************************************)
(* Claims about Path, checked under SpecPath                               *)
(***************************************************************************)

\* the normalization invariant of a path string
Normalized(pat) ==
    /\ Len(pat) > 0
    /\ pat[1] = "/"
    /\ pat[Len(pat)] # "/" \/ pat = <<"/">>

\* C15: every Path reachable through Path::new followed by any sequence of
\* pop, +, +=, / and /= is normalized: its string starts with "/" and does
\* not end with "/" unless it is the root "/"; it is never empty.
C15_PathNormalized == Normalized(cur_path.pat)

NoSlash(str) == \A i \in 1..Len(str) : str[i] # "/"

\* no two slashes in a row
SingleSlashes(str) ==
    \A i \in 1..(Len(str) - 1) : ~(str[i] = "/" /\ str[i + 1] = "/")

\* a parent path joined with a segment
Joined(par, segment) ==
    IF par = <<"/">> THEN par \o segment ELSE par \o <<"/">> \o segment

\* C16: for every path built by Path::new, parent() is the path with its last
\* segment removed and is normalized ("/foo" -> "/", "/foo/bar" -> "/foo",
\* "/" -> "/"); filename() is the last segment, holds no "/", and is empty
\* for the root.
C16_ParentAndFilename ==
    cur_path.op = "new"
        => LET p == cur_path.pat
               par == Path_parent(p)
               fnam == Path_filename(p)
           IN  /\ Normalized(par)
               /\ NoSlash(fnam)
               /\ p = <<"/">> => (par = <<"/">> /\ fnam = << >>)
               /\ (p # <<"/">> /\ SingleSlashes(p))
                      => (fnam # << >> /\ p = Joined(par, fnam))

\* C17: pop() returns what filename() returned before the call and leaves
\* the path at what parent() returned before the call, for every path built
\* by Path::new: popping "/foo" leaves "/", popping the root leaves "/".
C17_PopLeavesParent ==
    (cur_path.op = "pop" /\ cur_path.before_op = "new")
        => /\ cur_path.out = Path_filename(cur_path.before)
           /\ cur_path.pat = Path_parent(cur_path.before)

\* C18: for every non-root path p built by Path::new from a well-formed
\* input, Path::new(p.parent()) / p.filename() equals p; and for every
\* string s, Path::new(s + "/") = Path::new(s) and
\* Path::new(Path::new(s).str()) = Path::new(s).
C18_PathRoundTrip ==
    cur_path.op = "new"
        => LET p == cur_path.pat
           IN  /\ (p # <<"/">> /\ SingleSlashes(cur_path.arg))
                      => Path_div(Path_new(Path_parent(p)), Path_filename(p)) = p
               /\ Path_new(cur_path.arg \o <<"/">>) = p
               /\ Path_new(p) = p

(***************************************************************************)
(* cli/query/lex.rs: string literals and their escapes                     *)
(* A char is its code point; a &str is a sequence of chars.                *)
(***************************************************************************)

\* the code points of the characters named below
Ord ==
    [backslash |-> 92, quote |-> 39, dquote |-> 34, tab |-> 9, newline |-> 10,
     cr |-> 13, plus |-> 43, zero |-> 48, eight |-> 56, D |-> 68, a |-> 97,
     g |-> 103, n |-> 110, r |-> 114, t |-> 116, u |-> 117, x |-> 120]

\* char::to_digit(16), -1 for None
to_digit_16(c) ==
    IF c \in 48..57 THEN c - 48
    ELSE IF c \in 65..70 THEN c - 55
    ELSE IF c \in 97..102 THEN c - 87
    ELSE -1

RECURSIVE radix_16_value(_)
radix_16_value(digits) ==
    IF digits = << >> THEN 0
    ELSE 16 * radix_16_value(SubSeq(digits, 1, Len(digits) - 1))
             + to_digit_16(digits[Len(digits)])

\* u8::from_str_radix(&s, 16) / u32::from_str_radix(&s, 16), -1 for Err: an
\* unsigned integer is an optional "+" followed by one or more digits
from_str_radix_16(str) ==
    LET digits == IF str # << >> /\ str[1] = Ord.plus THEN Tail(str) ELSE str
    IN  IF digits = << >> \/ \E i \in 1..Len(digits) : to_digit_16(digits[i]) < 0
        THEN -1
        ELSE radix_16_value(digits)

\* char::try_from(u32) is Ok: the value is a Unicode scalar value
is_scalar_value(n) == n \in 0..55295 \/ n \in 57344..1114111

\* x_sequence_to_char, lines 48-63; iter holds the characters still to come
x_sequence_to_char(iter) ==
    LET used == IF Len(iter) < 2 THEN Len(iter) ELSE 2
        n == from_str_radix_16(SubSeq(iter, 1, 2))
    IN  IF Len(iter) < 2 THEN [tag |-> "NotEnoughChars", c |-> 0, used |-> used]
        ELSE IF n < 0 THEN [tag |-> "NonHexChar", c |-> 0, used |-> used]
        ELSE [tag |-> "Ok", c |-> n, used |-> used]

\* u_sequence_to_char, lines 82-100; iter holds the characters still to come
u_sequence_to_char(iter) ==
    LET used == IF Len(iter) < 4 THEN Len(iter) ELSE 4
        n == from_str_radix_16(SubSeq(iter, 1, 4))
    IN  IF Len(iter) < 4 THEN [tag |-> "NotEnoughChars", c |-> 0, used |-> used]
        ELSE IF n < 0 THEN [tag |-> "NonHexChar", c |-> 0, used |-> used]
        ELSE IF ~is_scalar_value(n) THEN [tag |-> "NotEnoughChars", c |-> 0, used |-> used]
        ELSE [tag |-> "Ok", c |-> n, used |-> used]

\* lex_string_literal, lines 112-134: the character pushed for an escape, e
\* being the character after the backslash and iter what follows e
escape_to_char(e, iter) ==
    IF e = Ord.n THEN [tag |-> "Ok", c |-> Ord.newline, used |-> 0]
    ELSE IF e = Ord.r THEN [tag |-> "Ok", c |-> Ord.cr, used |-> 0]
    ELSE IF e = Ord.tab THEN [tag |-> "Ok", c |-> Ord.tab, used |-> 0]
    ELSE IF e = Ord.backslash THEN [tag |-> "Ok", c |-> Ord.backslash, used |-> 0]
    ELSE IF e = Ord.quote THEN [tag |-> "Ok", c |-> Ord.quote, used |-> 0]
    ELSE IF e = Ord.dquote THEN [tag |-> "Ok", c |-> Ord.dquote, used |-> 0]
    ELSE IF e = Ord.x THEN x_sequence_to_char(iter)
    ELSE IF e = Ord.u THEN u_sequence_to_char(iter)
    ELSE [tag |-> "Ok", c |-> e, used |-> 0]

LexResult(tag, str, rest, used) ==
    [tag |-> tag, out |-> str, rest |-> rest, used |-> used]

RECURSIVE lex_string_literal_for(_, _, _, _)
\* lex_string_literal, lines 110-141: the for loop; pos characters of slice
\* have been taken from iter
lex_string_literal_for(slice, pos, opening_quote, str) ==
    IF pos >= Len(slice)
    THEN LexResult("MissingClosingQuote", << >>, << >>, pos)
    ELSE LET c == slice[pos + 1]
         IN  IF c = Ord.backslash
             THEN IF pos + 1 >= Len(slice)
                  THEN LexResult("EndingEscape", << >>, << >>, pos + 1)
                  ELSE LET e == escape_to_char(slice[pos + 2],
                                               SubSeq(slice, pos + 3, Len(slice)))
                       IN  IF e.tag # "Ok"
                           THEN LexResult(e.tag, << >>, << >>, pos + 2 + e.used)
                           ELSE lex_string_literal_for(slice, pos + 2 + e.used,
                                    opening_quote, Append(str, e.c))
             ELSE IF c = opening_quote
             THEN LexResult("Ok", Append(str, c),
                            SubSeq(slice, 1, pos + 1), pos + 1)
             ELSE lex_string_literal_for(slice, pos + 1, opening_quote,
                                         Append(str, c))

\* lex_string_literal, lines 102-144
lex_string_literal(slice) ==
    lex_string_literal_for(slice, 1, slice[1], <<slice[1]>>)

MaxLiteralLen == 3

MaxHexLen == 5

Quotes == {Ord.quote, Ord.dquote}

\* string literals: an opening quote and what follows it
LiteralInputs ==
    {<<q>> \o body :
        q \in Quotes,
        body \in BoundedSeq({Ord.backslash, Ord.quote, Ord.dquote, Ord.n,
                             Ord.r, Ord.t, Ord.a}, MaxLiteralLen)}

\* what may follow \x or \u
HexInputs ==
    BoundedSeq({Ord.zero, Ord.eight, Ord.D, Ord.g, Ord.plus}, MaxHexLen)

\* string literals made of one \x or \u escape
HexLiteralInputs ==
    {<<q, Ord.backslash, e>> \o h \o <<q>> :
        q \in Quotes, e \in {Ord.x, Ord.u}, h \in HexInputs}

\* a slice is about to be lexed
InitLex ==
    /\ InitLock
    /\ InitStore
    /\ cur_path = NoPathCall
    /\ parser = NoParseCall
    /\ cache = NoCache
    /\ \E s \in LiteralInputs \cup HexInputs \cup HexLiteralInputs :
           lexer = [NoLexCall EXCEPT !.op = "slice", !.slice = s]

LexStringLiteral ==
    /\ lexer.op = "slice"
    /\ lexer.slice # << >>
    /\ lexer.slice[1] \in Quotes
    /\ LET r == lex_string_literal(lexer.slice)
       IN  lexer' = [op |-> "lex_string_literal", slice |-> lexer.slice,
                     tag |-> r.tag, out |-> r.out, rest |-> r.rest,
                     used |-> r.used]
    /\ UNCHANGED <<cur_path, parser, cache, lockVars, dbVars>>

XSequenceToChar ==
    /\ lexer.op = "slice"
    /\ LET r == x_sequence_to_char(lexer.slice)
       IN  lexer' = [op |-> "x_sequence_to_char", slice |-> lexer.slice,
                     tag |-> r.tag, out |-> IF r.tag = "Ok" THEN <<r.c>> ELSE << >>,
                     rest |-> << >>, used |-> r.used]
    /\ UNCHANGED <<cur_path, parser, cache, lockVars, dbVars>>

USequenceToChar ==
    /\ lexer.op = "slice"
    /\ LET r == u_sequence_to_char(lexer.slice)
       IN  lexer' = [op |-> "u_sequence_to_char", slice |-> lexer.slice,
                     tag |-> r.tag, out |-> IF r.tag = "Ok" THEN <<r.c>> ELSE << >>,
                     rest |-> << >>, used |-> r.used]
    /\ UNCHANGED <<cur_path, parser, cache, lockVars, dbVars>>

NextLex ==
    \/ LexStringLiteral
    \/ XSequenceToChar
    \/ USequenceToChar

SpecLex == InitLex /\ [][NextLex]_vars

(***************************************************************************)
(* Claims about the lexer, checked under SpecLex                           *)
(***************************************************************************)

\* the two-character escapes and the character each stands for
NamedEscapes ==
    {<<Ord.n, Ord.newline>>, <<Ord.r, Ord.cr>>, <<Ord.t, Ord.tab>>,
     <<Ord.backslash, Ord.backslash>>, <<Ord.quote, Ord.quote>>,
     <<Ord.dquote, Ord.dquote>>}

\* C19: string-literal decoding maps backslash-n, backslash-r, backslash-t,
\* backslash-backslash, backslash-quote and backslash-doublequote to
\* newline, carriage return, tab, backslash, ' and "; all six are decoded,
\* and an escaped quote does not end the literal.
C19_EscapesDecoded ==
    lexer.op = "lex_string_literal"
        => LET q == lexer.slice[1]
           IN  /\ \A esc \in NamedEscapes :
                      lexer.slice = <<q, Ord.backslash, esc[1], q>>
                          => /\ lexer.tag = "Ok"
                             /\ lexer.out = <<q, esc[2], q>>
               /\ lexer.slice = <<q, Ord.backslash, q>> => lexer.tag # "Ok"

\* the first four characters are hex digits
FourHexDigits(iter) ==
    Len(iter) >= 4 /\ \A i \in 1..4 : to_digit_16(iter[i]) >= 0

\* C20: decoding a backslash-u escape takes exactly four characters; it fails
\* with NotEnoughChars only when fewer than four remain, with NonHexChar when
\* the four are not all hex digits, and with NonUtf8Sequence when they denote
\* no Unicode scalar value (D800); otherwise it yields the character with
\* that code point.
C20_UEscapeErrors ==
    lexer.op = "u_sequence_to_char"
        => LET iter == lexer.slice
               n == radix_16_value(SubSeq(iter, 1, 4))
           IN  /\ lexer.tag = "NotEnoughChars" <=> Len(iter) < 4
               /\ Len(iter) >= 4 => lexer.used = 4
               /\ (Len(iter) >= 4 /\ ~FourHexDigits(iter))
                      => lexer.tag = "NonHexChar"
               /\ (FourHexDigits(iter) /\ ~is_scalar_value(n))
                      => lexer.tag = "NonUtf8Sequence"
               /\ (FourHexDigits(iter) /\ is_scalar_value(n))
                      => (lexer.tag = "Ok" /\ lexer.out = <<n>>)

(***************************************************************************)
(* cli/query/lex.rs: get_token and the loop of lex                         *)
(***************************************************************************)

Letters ==
    <<"a", "b", "c", "d", "e", "f", "g", "h", "i", "j", "k", "l", "m",
      "n", "o", "p", "q", "r", "s", "t", "u", "v", "w", "x", "y", "z">>

\* the code point of a character written as a one-character string
Chr(c) ==
    IF \E i \in 1..Len(Letters) : Letters[i] = c
    THEN 96 + (CHOOSE i \in 1..Len(Letters) : Letters[i] = c)
    ELSE CASE c = " " -> 32
           [] c = "\"" -> Ord.dquote
           [] c = "'" -> Ord.quote
           [] c = "(" -> 40
           [] c = ")" -> 41
           [] c = "," -> 44
           [] c = "-" -> 45
           [] c = "=" -> 61
           [] c = "_" -> 95

\* a &str written as a sequence of one-character strings
Str(cs) == [i \in 1..Len(cs) |-> Chr(cs[i])]

\* char::is_whitespace, for the characters of the inputs
is_whitespace(c) == c \in {9, 10, 13, 32}

RECURSIVE trim_start(_)
\* str::trim_start
trim_start(str) ==
    IF str # << >> /\ is_whitespace(str[1]) THEN trim_start(Tail(str)) ELSE str

RECURSIVE trim_end(_)
\* str::trim_end, the second half of str::trim
trim_end(str) ==
    IF str # << >> /\ is_whitespace(str[Len(str)])
    THEN trim_end(SubSeq(str, 1, Len(str) - 1))
    ELSE str

\* a word character of the regex engine: [0-9A-Za-z_]
is_word(c) == c \in 48..57 \/ c \in 65..90 \/ c \in 97..122 \/ c = 95

\* \b after the first i characters of str
word_boundary(str, i) ==
    LET before == i >= 1 /\ is_word(str[i])
        after == i < Len(str) /\ is_word(str[i + 1])
    IN  before # after

\* Regex::find for ^lit or ^lit\b: the end of the match, 0 for None
find_literal(str, lit, b) ==
    IF /\ Len(str) >= Len(lit)
       /\ SubSeq(str, 1, Len(lit)) = lit
       /\ b => word_boundary(str, Len(lit))
    THEN Len(lit)
    ELSE 0

\* a character of the class [a-zA-Z0-9\-_]
is_id_char(c) == is_word(c) \/ c = 45

\* ID_REGEX.find, line 146: ^[a-zA-Z0-9\-_]+\b takes the longest run of class
\* characters and gives characters back until \b holds; 0 for None
find_id(str) ==
    LET run == {j \in 1..Len(str) : \A i \in 1..j : is_id_char(str[i])}
        ends == {j \in run : word_boundary(str, j)}
    IN  IF ends = {} THEN 0 ELSE Max(ends)

\* LITERAL_TOKENS, lines 148-156, in the order of the array; the variant
\* written LexemeKind::Equals is Equals(Strict), the only equality the
\* array names
LITERAL_TOKENS ==
    << [lit |-> Str(<<"(">>), b |-> FALSE, kind |-> "LParen"],
       [lit |-> Str(<<")">>), b |-> FALSE, kind |-> "RParen"],
       [lit |-> Str(<<"=", "=">>), b |-> FALSE, kind |-> "Equals(Strict)"],
       [lit |-> Str(<<"=">>), b |-> FALSE, kind |-> "Equals(Strict)"],
       [lit |-> Str(<<"i", "s">>), b |-> TRUE, kind |-> "Equals(Strict)"],
       [lit |-> Str(<<"a", "n", "d">>), b |-> TRUE, kind |-> "And"],
       [lit |-> Str(<<"o", "r">>), b |-> TRUE, kind |-> "Or"] >>

\* slice.slice_until(char::is_whitespace), str.rs lines 83-93: up to and
\* including the first whitespace character
slice_until_whitespace(str) ==
    LET ws == {i \in 1..Len(str) : is_whitespace(str[i])}
    IN  IF ws = {} THEN str ELSE SubSeq(str, 1, Min(ws))

TokenResult(tag, token, kind, rest) ==
    [tag |-> tag, lexeme |-> [token |-> token, kind |-> kind], rest |-> rest]

\* get_token, lines 158-187; the lexeme kind written LexemeKind::Identifier
\* is the variant Key of lexeme.rs
get_token(slice0) ==
    LET slice == trim_start(slice0)
        hits == {i \in 1..Len(LITERAL_TOKENS) :
                    find_literal(slice, LITERAL_TOKENS[i].lit,
                                 LITERAL_TOKENS[i].b) > 0}
        id == find_id(slice)
    IN  IF hits # {}
        THEN LET t == LITERAL_TOKENS[Min(hits)]
             IN  TokenResult("Ok", t.lit, t.kind,
                             SubSeq(slice, Len(t.lit) + 1, Len(slice)))
        ELSE IF slice # << >> /\ slice[1] \in Quotes
        THEN LET r == lex_string_literal(slice)
             IN  IF r.tag = "Ok"
                 THEN TokenResult("Ok", r.out, "Value", r.rest)
                 ELSE TokenResult(r.tag, << >>, "none", << >>)
        ELSE IF id > 0
        THEN TokenResult("Ok", SubSeq(slice, 1, id), "Key",
                         SubSeq(slice, id + 1, Len(slice)))
        ELSE TokenResult("NonLexableSequence", slice_until_whitespace(slice),
                         "none", << >>)

RECURSIVE join(_)
\* lex, lines 190-197: an argument holding a space is put in parentheses and
\* the arguments are joined with single spaces
join(args) ==
    LET wrap(arg) == IF \E i \in 1..Len(arg) : arg[i] = 32
                     THEN <<40>> \o arg \o <<41>>
                     ELSE arg
    IN  IF args = << >> THEN << >>
        ELSE IF Len(args) = 1 THEN wrap(args[1])
        ELSE wrap(args[1]) \o <<32>> \o join(Tail(args))

\* the words of the queries handed to lex
LexWords ==
    { Str(<<",">>), Str(<<"(">>), Str(<<")">>), Str(<<"=", "=">>), Str(<<"=">>),
      Str(<<"i", "s">>), Str(<<"i", "n">>), Str(<<"a", "n", "d">>),
      Str(<<"o", "r">>), Str(<<"m", "a", "t", "c", "h", "e", "s">>),
      Str(<<"a">>), Str(<<"a", "_", "b">>), Str(<<"a", "b", "c", "-">>),
      Str(<<"o", "r", "-", "e", "l", "s", "e">>), Str(<<"i", "s", "-", "o", "k">>),
      Str(<<"-", "a">>), Str(<<"'", "a", "'">>), Str(<<"\"", "\"">>),
      Str(<<"'", "a", " ", "b", "'">>), Str(<<"'", "a">>) }

\* the argument lists handed to lex
LexArgs == {<<w>> : w \in LexWords} \cup {<<v, w>> : v \in LexWords, w \in LexWords}

\* lex, lines 190-200: s has been built, the loop is about to start
InitLexer ==
    /\ InitLock
    /\ InitStore
    /\ cur_path = NoPathCall
    /\ parser = NoParseCall
    /\ cache = NoCache
    /\ \E args \in LexArgs :
           lexer = [op |-> "lex", text |-> join(args),
                    slice |-> trim_end(trim_start(join(args))),
                    queue |-> << >>, tag |-> "running"]

\* lex, lines 202-211: one turn of the while loop. A lexeme takes at least one
\* character of the text, so only a loop that does not advance is cut short.
LexWhile ==
    /\ lexer.op = "lex"
    /\ lexer.tag = "running"
    /\ Len(lexer.slice) > 0
    /\ Len(lexer.queue) <= Len(lexer.text)
    /\ LET r == get_token(lexer.slice)
       IN  lexer' = IF r.tag # "Ok"
                    THEN [lexer EXCEPT !.tag = r.tag]
                    ELSE [lexer EXCEPT !.queue = Append(@, r.lexeme),
                                       !.slice = trim_start(r.rest)]
    /\ UNCHANGED <<cur_path, parser, cache, lockVars, dbVars>>

\* lex, lines 202 and 213: the slice is empty and the queue is returned
LexReturn ==
    /\ lexer.op = "lex"
    /\ lexer.tag = "running"
    /\ Len(lexer.slice) = 0
    /\ lexer' = [lexer EXCEPT !.tag = "Ok"]
    /\ UNCHANGED <<cur_path, parser, cache, lockVars, dbVars>>

NextLexer ==
    \/ LexWhile
    \/ LexReturn

\* a call of lex keeps running until it returns
SpecLexer == InitLexer /\ [][NextLexer]_vars /\ WF_vars(NextLexer)

(***************************************************************************)
(* Claims about lex, checked under SpecLexer                               *)
(***************************************************************************)

\* the literal tokens of the query language and their lexeme kinds
DslTokens ==
    { <<Str(<<",">>), "Comma">>, <<Str(<<"(">>), "LParen">>,
      <<Str(<<")">>), "RParen">>, <<Str(<<"=", "=">>), "Equals(Strict)">>,
      <<Str(<<"=">>), "Equals(Strict)">>, <<Str(<<"i", "s">>), "Equals(Strict)">>,
      <<Str(<<"i", "n">>), "In">>, <<Str(<<"a", "n", "d">>), "And">>,
      <<Str(<<"o", "r">>), "Or">>,
      <<Str(<<"m", "a", "t", "c", "h", "e", "s">>), "Equals(Matches)">> }

\* C21: the lexer recognises every literal token: "," is Comma, "(" LParen,
\* ")" RParen, "==" one Equals(Strict), "=" and "is" Equals(Strict), "in" In,
\* "and" And, "or" Or, "matches" Equals(Matches); none is lexed as a Key or
\* rejected as non-lexable.
C21_LiteralTokens ==
    (lexer.op = "lex" /\ lexer.tag # "running")
        => \A t \in DslTokens :
               lexer.text = t[1]
                   => /\ lexer.tag = "Ok"
                      /\ lexer.queue = <<[token |-> t[1], kind |-> t[2]]>>

\* the text is one run of characters of [a-zA-Z0-9_-] and no keyword
IsIdentifierRun(text) ==
    /\ text # << >>
    /\ \A i \in 1..Len(text) : is_id_char(text[i])
    /\ \A t \in DslTokens : text # t[1]

\* C22: a maximal run of characters of [a-zA-Z0-9_-] that is not a keyword is
\* lexed as one Key lexeme holding the whole run, also when it ends with "-"
\* ("abc-") or starts with a keyword followed by "-" ("or-else", "is-ok").
C22_IdentifierIsOneKey ==
    (lexer.op = "lex" /\ lexer.tag # "running" /\ IsIdentifierRun(lexer.text))
        => /\ lexer.tag = "Ok"
           /\ lexer.queue = <<[token |-> lexer.text, kind |-> "Key"]>>

\* C29: lex terminates on every finite input: every get_token leaves a
\* shorter slice, so the loop reaches the empty slice and returns the queue,
\* or returns a lex error.
C29_LexTerminates == <>(lexer.op = "lex" => lexer.tag # "running")

(***************************************************************************)
(* cli/query/parse.rs: the recursive-descent parser                        *)
(* A LexemeQueue is a sequence of lexemes, its front first.                *)
(***************************************************************************)

Lexeme(kind, token) == [kind |-> kind, token |-> token]

\* no lexeme: the None of LexemeQueue::pop
NoLexeme == Lexeme("none", "")

\* the None of OrQuery.next and AndQuery.next
NoQuery == [node |-> "None"]

\* a Result of a production: rest is the queue the production leaves, lexeme
\* the lexeme an error carries, at the lexeme the failing pop returned
ParseOk(tree, rest) ==
    [tag |-> "Ok", tree |-> tree, rest |-> rest, lexeme |-> NoLexeme,
     at |-> NoLexeme]

ParseErr(tag, lexeme, at, rest) ==
    [tag |-> tag, tree |-> NoQuery, rest |-> rest, lexeme |-> lexeme, at |-> at]

\* LexemeQueue::pop_kind, lexeme.rs lines 93-99: the queue it leaves
pop_kind(q, kind) == IF q # << >> /\ q[1].kind = kind THEN Tail(q) ELSE q

RECURSIVE parse_values(_)
\* parse_values, lines 161-170
parse_values(q) ==
    IF q # << >> /\ q[1].kind \in {"Key", "Value"}
    THEN LET r == parse_values(pop_kind(Tail(q), "Comma"))
         IN  [values |-> <<q[1].token>> \o r.values, rest |-> r.rest]
    ELSE [values |-> << >>, rest |-> q]

\* parse_factor, lines 115-141: tok was a Key and next is In
parse_factor_in(tok, q) ==
    IF q = << >> THEN ParseErr("UnexpectedEOF", NoLexeme, NoLexeme, q)
    ELSE IF q[1].kind # "LParen"
    THEN ParseErr("UnexpectedToken", q[1], q[1], Tail(q))
    ELSE LET v == parse_values(Tail(q))
             q1 == pop_kind(v.rest, "Comma")
         IN  IF q1 = << >>
             THEN ParseErr("UnexpectedEOF", NoLexeme, NoLexeme, q1)
             ELSE IF q1[1].kind # "RParen"
             THEN ParseErr("UnexpectedToken", q1[1], q1[1], Tail(q1))
             ELSE ParseOk([node |-> "KeyIn", key |-> tok.token,
                           values |-> v.values], Tail(q1))

\* parse_factor, lines 142-153: tok was a Key and next is Equals(e)
parse_factor_equals(tok, next, q) ==
    IF q = << >> THEN ParseErr("UnexpectedEOF", NoLexeme, NoLexeme, q)
    ELSE IF q[1].kind \notin {"Key", "Value"}
    THEN ParseErr("UnexpectedToken", q[1], q[1], Tail(q))
    ELSE ParseOk([node |-> "KeyEqualsValue", key |-> tok.token,
                  eq |-> IF next.kind = "Equals(Strict)" THEN "Strict" ELSE "Matches",
                  value |-> q[1].token], Tail(q))

RECURSIVE production(_, _)
\* the three productions that call each other, lines 57-159: production(p, q)
\* is parse_or_query(q), parse_and_query(q) or parse_factor(q)
production(p, q) ==
    IF p = "or_query"
    THEN \* parse_or_query, lines 57-70
         LET and_query == production("and_query", q)
         IN  IF and_query.tag # "Ok" THEN and_query
             ELSE IF and_query.rest # << >> /\ and_query.rest[1].kind = "Or"
             THEN LET next == production("or_query", Tail(and_query.rest))
                  IN  IF next.tag # "Ok" THEN next
                      ELSE ParseOk([node |-> "OrQuery",
                                    and_query |-> and_query.tree,
                                    next |-> next.tree], next.rest)
             ELSE ParseOk([node |-> "OrQuery", and_query |-> and_query.tree,
                           next |-> NoQuery], and_query.rest)
    ELSE IF p = "and_query"
    THEN \* parse_and_query, lines 72-85
         LET factor == production("factor", q)
         IN  IF factor.tag # "Ok" THEN factor
             ELSE IF factor.rest # << >> /\ factor.rest[1].kind = "And"
             THEN LET next == production("and_query", Tail(factor.rest))
                  IN  IF next.tag # "Ok" THEN next
                      ELSE ParseOk([node |-> "AndQuery", factor |-> factor.tree,
                                    next |-> next.tree], next.rest)
             ELSE ParseOk([node |-> "AndQuery", factor |-> factor.tree,
                           next |-> NoQuery], factor.rest)
    ELSE \* parse_factor, lines 87-159
         IF q = << >> THEN ParseErr("UnexpectedEOF", NoLexeme, NoLexeme, q)
         ELSE LET tok == q[1]
                  q1 == Tail(q)
              IN  IF tok.kind = "LParen"
                  THEN LET expr == production("or_query", q1)
                       IN  IF expr.tag # "Ok" THEN expr
                           ELSE IF expr.rest = << >>
                           THEN ParseErr("UnexpectedToken", tok, NoLexeme, expr.rest)
                           ELSE IF expr.rest[1].kind # "RParen"
                           THEN ParseErr("UnexpectedEOF", NoLexeme, expr.rest[1],
                                         Tail(expr.rest))
                           ELSE ParseOk([node |-> "Query", query |-> expr.tree],
                                        Tail(expr.rest))
                  ELSE IF tok.kind = "Key"
                  THEN IF q1 = << >>
                       THEN ParseOk([node |-> "Key", key |-> tok.token], q1)
                       ELSE LET next == q1[1]
                            IN  IF next.kind = "In"
                                THEN parse_factor_in(tok, Tail(q1))
                                ELSE IF next.kind \in {"Equals(Strict)",
                                                       "Equals(Matches)"}
                                THEN parse_factor_equals(tok, next, Tail(q1))
                                ELSE ParseErr("UnexpectedToken", next, next,
                                              Tail(q1))
                  ELSE ParseErr("UnexpectedToken", tok, tok, q1)

\* parse_factor, lines 87-159
parse_factor(q) == production("factor", q)

\* parse_and_query, lines 72-85
parse_and_query(q) == production("and_query", q)

\* parse_or_query, lines 57-70
parse_or_query(q) == production("or_query", q)

\* trailing_token with the check of the rest of the queue left out
trailing_token_unchecked(or_query) == or_query

\* parse, lines 50-54: a lexeme left in the queue is a TrailingToken
trailing_token(or_query) ==
    IF or_query.rest # << >>
    THEN ParseErr("TrailingToken", or_query.rest[1], or_query.rest[1],
                  or_query.rest)
    ELSE or_query

\* parse, lines 47-55
parse(q) ==
    LET or_query == parse_or_query(q)
    IN  IF or_query.tag # "Ok" THEN or_query ELSE trailing_token(or_query)

MaxQueueLen == 4

\* the lexemes of the queues
LexemeInputs ==
    { Lexeme("LParen", "("), Lexeme("RParen", ")"), Lexeme("Equals(Strict)", "="),
      Lexeme("Or", "or"), Lexeme("And", "and"), Lexeme("Key", "a"),
      Lexeme("Value", "'v'"), Lexeme("In", "in"), Lexeme("Comma", ",") }

K(token) == Lexeme("Key", token)

\* "a and b or c", "k in (a, b,)", "k in (a,,)", "k in (a b)", "( a = b",
\* "( a = b c", "(a = b) or c matches 'v'", "a = b or k in (a) c"
NamedQueues ==
    { <<K("a"), Lexeme("And", "and"), K("b"), Lexeme("Or", "or"), K("c")>>,
      <<K("k"), Lexeme("In", "in"), Lexeme("LParen", "("), K("a"),
        Lexeme("Comma", ","), K("b"), Lexeme("Comma", ","), Lexeme("RParen", ")")>>,
      <<K("k"), Lexeme("In", "in"), Lexeme("LParen", "("), K("a"),
        Lexeme("Comma", ","), Lexeme("Comma", ","), Lexeme("RParen", ")")>>,
      <<K("k"), Lexeme("In", "in"), Lexeme("LParen", "("), K("a"), K("b"),
        Lexeme("RParen", ")")>>,
      <<Lexeme("LParen", "("), K("a"), Lexeme("Equals(Strict)", "="), K("b")>>,
      <<Lexeme("LParen", "("), K("a"), Lexeme("Equals(Strict)", "="), K("b"),
        K("c")>>,
      <<Lexeme("LParen", "("), K("a"), Lexeme("Equals(Strict)", "="), K("b"),
        Lexeme("RParen", ")"), Lexeme("Or", "or"), K("c"),
        Lexeme("Equals(Matches)", "matches"), Lexeme("Value", "'v'")>>,
      <<K("a"), Lexeme("Equals(Strict)", "="), K("b"), Lexeme("Or", "or"),
        K("k"), Lexeme("In", "in"), Lexeme("LParen", "("), K("a"),
        Lexeme("RParen", ")"), K("c")>> }

QueueInputs == BoundedSeq(LexemeInputs, MaxQueueLen) \cup NamedQueues

\* a lexeme queue is about to be parsed
InitParser ==
    /\ InitLock
    /\ InitStore
    /\ cur_path = NoPathCall
    /\ lexer = NoLexCall
    /\ cache = NoCache
    /\ \E q \in QueueInputs :
           parser = [op |-> "queue", queue |-> q, tag |-> "none",
                     tree |-> NoQuery, rest |-> q, lexeme |-> NoLexeme,
                     at |-> NoLexeme]

Parse ==
    /\ parser.op = "queue"
    /\ LET r == parse(parser.queue)
       IN  parser' = [op |-> "parse", queue |-> parser.queue, tag |-> r.tag,
                      tree |-> r.tree, rest |-> r.rest, lexeme |-> r.lexeme,
                      at |-> r.at]
    /\ UNCHANGED <<cur_path, lexer, cache, lockVars, dbVars>>

NextParser == Parse

SpecParser == InitParser /\ [][NextParser]_vars

(***************************************************************************)
(* Claims about the parser, checked under SpecParser                       *)
(***************************************************************************)

KeyFactor(token) == [node |-> "Key", key |-> token]

AndOf(factor, next) == [node |-> "AndQuery", factor |-> factor, next |-> next]

OrOf(and_query, next) == [node |-> "OrQuery", and_query |-> and_query, next |-> next]

\* C23: the lexemes of "a and b or c" parse to Or(And(a, b), c); a bare key
\* followed by "and", "or" or ")" parses as the presence test Factor::Key and
\* leaves that lexeme in the queue for the enclosing production.
C23_AndBindsTighterThanOr ==
    parser.op = "parse"
        => /\ parser.queue = <<K("a"), Lexeme("And", "and"), K("b"),
                               Lexeme("Or", "or"), K("c")>>
                  => /\ parser.tag = "Ok"
                     /\ parser.tree =
                            OrOf(AndOf(KeyFactor("a"),
                                       AndOf(KeyFactor("b"), NoQuery)),
                                 OrOf(AndOf(KeyFactor("c"), NoQuery), NoQuery))
           /\ (/\ Len(parser.queue) >= 2
               /\ parser.queue[1].kind = "Key"
               /\ parser.queue[2].kind \in {"And", "Or", "RParen"})
                  => parse_factor(parser.queue) =
                         ParseOk(KeyFactor(parser.queue[1].token),
                                 Tail(parser.queue))

\* C24: parse returns Ok only if the whole queue was consumed: when a complete
\* or-query has been parsed and a lexeme remains, parse fails with
\* TrailingToken carrying the first remaining lexeme; after every successful
\* parse the queue is empty.
C24_TrailingToken ==
    parser.op = "parse"
        => LET or_query == parse_or_query(parser.queue)
           IN  /\ parser.tag = "Ok" => parser.rest = << >>
               /\ (or_query.tag = "Ok" /\ or_query.rest # << >>)
                      => /\ parser.tag = "TrailingToken"
                         /\ parser.lexeme = or_query.rest[1]

\* C24 witness: an or-query of three lexemes was parsed and the fourth lexeme
\* of the queue came back in TrailingToken
C24_Witness ==
    /\ parser.op = "parse"
    /\ Len(parser.queue) = 4
    /\ parse_or_query(parser.queue).tag = "Ok"
    /\ parser.tag = "TrailingToken"
    /\ parser.lexeme = parser.queue[4]

\* C25: the error kind matches the cause: UnexpectedEOF only when the queue
\* was exhausted where a lexeme was required, UnexpectedToken, carrying the
\* offending lexeme, only when a lexeme was there but of a kind the
\* production does not accept.
C25_ErrorKindMatchesCause ==
    parser.op = "parse"
        => /\ parser.tag = "UnexpectedEOF" => parser.at = NoLexeme
           /\ parser.tag = "UnexpectedToken"
                  => (parser.at # NoLexeme /\ parser.lexeme = parser.at)

\* the queue is key "in" "(" xs ")" with xs made of values and commas
IsMembership(q) ==
    /\ Len(q) >= 4
    /\ q[1].kind = "Key"
    /\ q[2].kind = "In"
    /\ q[3].kind = "LParen"
    /\ q[Len(q)].kind = "RParen"
    /\ \A i \in 4..(Len(q) - 1) : q[i].kind \in {"Key", "Value", "Comma"}

\* the list between the parentheses: value ( ","? value )* ","?
IsValueList(xs) ==
    /\ xs # << >>
    /\ xs[1].kind # "Comma"
    /\ \A i \in 1..(Len(xs) - 1) : ~(xs[i].kind = "Comma" /\ xs[i + 1].kind = "Comma")

\* the tokens of the values of a list
ValueTokens(xs) ==
    LET vs == SelectSeq(xs, LAMBDA x : x.kind # "Comma")
    IN  [i \in 1..Len(vs) |-> vs[i].token]

\* C26: a membership factor is key "in" "(" values ")" with values made of
\* one or more values, separated by a comma or by nothing, and at most one
\* trailing comma: "k in (a, b,)" is KeyIn(k, [a, b]); "k in ()" and
\* "k in (a,,)" are rejected.
C26_MembershipGrammar ==
    (parser.op = "parse" /\ IsMembership(parser.queue))
        => LET xs == SubSeq(parser.queue, 4, Len(parser.queue) - 1)
           IN  IF IsValueList(xs)
               THEN /\ parser.tag = "Ok"
                    /\ parser.tree =
                           OrOf(AndOf([node |-> "KeyIn",
                                       key |-> parser.queue[1].token,
                                       values |-> ValueTokens(xs)],
                                      NoQuery), NoQuery)
               ELSE parser.tag # "Ok"

(***************************************************************************)
(* collections/mrucache.rs: MRUCache                                       *)
(* The nodes live in a heap: nodes[i] is the node an Arc<Node> with        *)
(* address i points to, and the pointer None is 0. hm maps a key to the    *)
(* address of its node, 0 for a key that is not in the map.                *)
(***************************************************************************)

CacheKeys == {1, 2, 3}

CacheValues == {0, 1, 5}

Capacities == {2, 16}

MaxNodes == 3

\* Node::new, lines 14-21
Node_new(key, value) == [key |-> key, value |-> value, next |-> 0, prev |-> 0]

\* MRUCache::new, lines 57-59
MRUCache_new(capacity) ==
    [nodes |-> << >>, head |-> 0, tail |-> 0,
     hm |-> [k \in CacheKeys |-> 0], capacity |-> capacity]

\* MRUCache::len, lines 122-124
MRUCache_len(c) == Cardinality({k \in CacheKeys : c.hm[k] # 0})

\* MRUCache::insert, lines 61-92
MRUCache_insert(c, key, value) ==
    LET new == Len(c.nodes) + 1
        nodes1 == Append(c.nodes, Node_new(key, value))
        hm1 == [c.hm EXCEPT ![key] = new]
        c1 == IF c.tail # 0
              THEN [c EXCEPT !.nodes = [nodes1 EXCEPT ![c.tail].next = new,
                                                      ![new].prev = c.tail],
                             !.tail = new, !.hm = hm1]
              ELSE [c EXCEPT !.nodes = nodes1, !.head = new, !.tail = new,
                             !.hm = hm1]
        head2 == IF c1.head # 0 THEN c1.nodes[c1.head].next ELSE 0
    IN  IF MRUCache_len(c1) > c1.capacity
        THEN [c1 EXCEPT !.head = head2,
                        !.nodes = IF head2 # 0
                                  THEN [c1.nodes EXCEPT ![head2].prev = 0]
                                  ELSE c1.nodes]
        ELSE c1

\* MRUCache::get, lines 97-110: the node s found in hm is unlinked from its
\* neighbours and made the tail
MRUCache_get_relink(c, s) ==
    LET prev == c.nodes[s].prev
        next == c.nodes[s].next
        n1 == IF prev # 0 THEN [c.nodes EXCEPT ![prev].next = next] ELSE c.nodes
        n2 == IF next # 0 THEN [n1 EXCEPT ![next].prev = prev] ELSE n1
        n3 == [n2 EXCEPT ![s].prev = c.tail, ![s].next = 0]
    IN  [c EXCEPT !.nodes = n3, !.tail = s]

\* MRUCache::get, lines 94-116: the cache it leaves
MRUCache_get(c, key) ==
    IF c.hm[key] # 0 THEN MRUCache_get_relink(c, c.hm[key]) ELSE c

\* MRUCache::get, lines 112 and 114: the Option<&V> it returns, as a sequence
MRUCache_get_returns(c, key) ==
    IF c.hm[key] # 0 THEN <<c.nodes[c.hm[key]].value>> ELSE << >>

RECURSIVE NodeIter_collect(_, _, _)
\* NodeIter::next, lines 37-46, called until it returns None; a chain is no
\* longer than the heap
NodeIter_collect(c, cur, fuel) ==
    IF cur = 0 \/ fuel = 0 THEN << >>
    ELSE <<<<c.nodes[cur].key, c.nodes[cur].value>>>>
             \o NodeIter_collect(c, c.nodes[cur].next, fuel - 1)

\* MRUCache::iter, lines 118-120, collected into a vector
MRUCache_iter(c) == NodeIter_collect(c, c.head, Len(c.nodes))

CacheCall(c, op, key, value, out) ==
    [c |-> c, op |-> op, key |-> key, value |-> value, out |-> out,
     pre |-> cache.c]

\* an empty MRUCache has been built
InitCache ==
    /\ InitLock
    /\ InitStore
    /\ cur_path = NoPathCall
    /\ lexer = NoLexCall
    /\ parser = NoParseCall
    /\ \E capacity \in Capacities :
           cache = [c |-> MRUCache_new(capacity), op |-> "new", key |-> 0,
                    value |-> 0, out |-> << >>, pre |-> MRUCache_new(capacity)]

CacheInsert(key, value) ==
    /\ Len(cache.c.nodes) < MaxNodes
    /\ cache' = CacheCall(MRUCache_insert(cache.c, key, value), "insert",
                          key, value, <<value>>)
    /\ UNCHANGED <<cur_path, lexer, parser, lockVars, dbVars>>

CacheGet(key) ==
    /\ cache' = CacheCall(MRUCache_get(cache.c, key), "get", key, 0,
                          MRUCache_get_returns(cache.c, key))
    /\ UNCHANGED <<cur_path, lexer, parser, lockVars, dbVars>>

NextCache ==
    \/ \E key \in CacheKeys, value \in CacheValues : CacheInsert(key, value)
    \/ \E key \in CacheKeys : CacheGet(key)

SpecCache == InitCache /\ [][NextCache]_vars

(***************************************************************************)
(* Claims about MRUCache, checked under SpecCache                          *)
(***************************************************************************)

\* the key is in the cache
Present(c, key) == c.hm[key] # 0

\* C30: MRUCache iterates its entries in insertion order, and get(key) on a
\* present key returns that key's value and leaves the iteration order and
\* the number of entries unchanged: after insert(1,1), insert(2,0),
\* insert(3,5) and get(2), iteration yields (1,1), (2,0), (3,5).
C30_GetKeepsIteration ==
    /\ (cache.op = "insert" /\ ~Present(cache.pre, cache.key)
            /\ MRUCache_len(cache.c) <= cache.c.capacity)
           => MRUCache_iter(cache.c) =
                  Append(MRUCache_iter(cache.pre), <<cache.key, cache.value>>)
    /\ (cache.op = "get" /\ Present(cache.pre, cache.key))
           => /\ cache.out = <<cache.pre.nodes[cache.pre.hm[cache.key]].value>>
              /\ MRUCache_iter(cache.c) = MRUCache_iter(cache.pre)
              /\ MRUCache_len(cache.c) = MRUCache_len(cache.pre)

====
